---- MODULE Spec2Model ----
(***************************************************************************)
(* Token-bucket rate limiter (package rate_limit).                         *)
(*                                                                         *)
(* The bucket's fields are the variables capacity .. lastTick and mu; the  *)
(* clock is the time elapsed since createTime, in abstract time units.     *)
(* Each caller runs one public operation through doWithLock: it locks mu,  *)
(* runs the closure, unlocks, and then sleeps for the returned duration.   *)
(* int64 / time.Duration arithmetic is modelled at a reduced width of      *)
(* IntBits bits (two's complement, wrapping).                              *)
(***************************************************************************)
EXTENDS Integers, FiniteSets, Sequences, TLC

\* ------------------------------------------------------------- bounds
NumProcs == 3          \* callers of the burst of concurrent Take calls
MaxCapacity == 2       \* capacity ranges over 1..MaxCapacity
MaxQuantum == 2        \* quantum ranges over 1..MaxQuantum
MaxFillInterval == 2   \* fillInterval ranges over 1..MaxFillInterval
MaxCount == 2          \* count arguments range over -1..MaxCount
MaxWait == 1           \* maxWait arguments range over -1..MaxWait
MaxTime == 4           \* the clock stops advancing at MaxTime
IntBits == 8           \* width of the machine integers of the model
MaxGranted == 4        \* the ledger of granted tokens is kept until it holds MaxGranted

Procs == 1..NumProcs
Callers == {1, 2}      \* the callers that issue arbitrary calls
Capacities == 1..MaxCapacity
Quanta == 1..MaxQuantum
FillIntervals == 1..MaxFillInterval
Counts == (-1)..MaxCount
MaxWaits == (-1)..MaxWait

VARIABLES
    capacity,          \* TokenBucket.capacity
    quantum,           \* TokenBucket.quantum
    fillInterval,      \* TokenBucket.fillInterval
    prohibitOverflow,  \* Options.prohibitOverflow
    availableTokens,   \* TokenBucket.availableTokens
    lastTick,          \* TokenBucket.lastTick
    mu,                \* TokenBucket.mu: 0 when free, else the holder
    clock,             \* what clock.Now() returns, as time since createTime
    pc,                \* each caller's position in doWithLock
    waitTime,          \* doWithLock's local waitTime of each caller
    wake,              \* when each sleeping caller's Sleep may return
    obs,               \* history: the closure the lock holder has just run
    grants,            \* history: the closures of callers that call once, in lock order
    emptied,           \* history: when the bucket was last seen drained (see Closure)
    local              \* take's local variables of a caller inside take (see TakeBegin)

params == <<capacity, quantum, fillInterval, prohibitOverflow>>
bucket == <<availableTokens, lastTick>>
vars == <<capacity, quantum, fillInterval, prohibitOverflow, availableTokens,
          lastTick, mu, clock, pc, waitTime, wake, obs, grants, emptied, local>>

\* ------------------------------------------------- machine arithmetic
RECURSIVE Pow2(_)
Pow2(n) == IF n = 0 THEN 1 ELSE 2 * Pow2(n - 1)

\* math.MaxInt64 and math.MinInt64 at the model's width
MaxInt == Pow2(IntBits - 1) - 1
MinInt == -Pow2(IntBits - 1)

\* an int64 result: two's complement wrap-around
wrap(x) == ((x - MinInt) % (MaxInt - MinInt + 1)) + MinInt

\* Go's integer division truncates toward zero
GoDiv(a, b) ==
    LET abs(x) == IF x < 0 THEN -x ELSE x
        q == abs(a) \div abs(b)
    IN  IF (a < 0) = (b < 0) THEN q ELSE -q

\* time.Time.Sub: the difference of two instants, saturated to a Duration
Sub(t, u) ==
    LET d == t - u
    IN  IF d > MaxInt THEN MaxInt ELSE IF d < MinInt THEN MinInt ELSE d

\* const infinityDuration time.Duration = math.MaxInt64
infinityDuration == MaxInt

\* the instant NewBucket stored; the clock is measured from it
createTime == 0

\* ------------------------------------------------------- TokenBucket
\* faulty variant of currentTick: a started fill interval counts as elapsed
currentTick_RoundUp(now) == GoDiv(Sub(now, createTime) + fillInterval - 1, fillInterval)

\* currentTick: whole fill intervals elapsed since createTime
currentTick(now) == GoDiv(Sub(now, createTime), fillInterval)

\* faulty variant of adjustAvailableTokens: the refill is not capped at capacity
adjustAvailableTokens_NoCap(avail, lt, tick) ==
    IF avail >= capacity
    THEN [availableTokens |-> avail, lastTick |-> tick]
    ELSE [availableTokens |-> wrap(avail + wrap(wrap(tick - lt) * quantum)),
          lastTick |-> tick]

\* faulty variant of adjustAvailableTokens: one quantum is added however many
\* ticks have passed
adjustAvailableTokens_OneQuantum(avail, lt, tick) ==
    IF avail >= capacity
    THEN [availableTokens |-> avail, lastTick |-> tick]
    ELSE LET a == wrap(avail + (IF tick > lt THEN quantum ELSE 0))
         IN  [availableTokens |-> IF a > capacity THEN capacity ELSE a,
              lastTick |-> tick]

\* adjustAvailableTokens on a bucket holding avail tokens with lastTick lt
adjustAvailableTokens(avail, lt, tick) ==
    IF avail >= capacity
    THEN [availableTokens |-> avail, lastTick |-> tick]
    ELSE LET a == wrap(avail + wrap(wrap(tick - lt) * quantum))
         IN  [availableTokens |-> IF a > capacity THEN capacity ELSE a,
              lastTick |-> tick]

\* faulty variant of take: count > capacity is refused without the option
take_AlwaysProhibit(avail, lt, count, now, maxWait) ==
    IF count <= 0
    THEN [availableTokens |-> avail, lastTick |-> lt, waitTime |-> 0, succ |-> TRUE]
    ELSE IF count > capacity
    THEN [availableTokens |-> avail, lastTick |-> lt, waitTime |-> 0, succ |-> FALSE]
    ELSE
      LET tick == currentTick(now)
          b == adjustAvailableTokens(avail, lt, tick)
          newAvailable == wrap(b.availableTokens - count)
      IN  IF newAvailable >= 0
          THEN [availableTokens |-> newAvailable, lastTick |-> tick,
                waitTime |-> 0, succ |-> TRUE]
          ELSE
            LET endTick == wrap(tick + GoDiv(wrap(wrap(-newAvailable) + quantum - 1), quantum))
                expectedEndTime == createTime + wrap(fillInterval * endTick)
                wt == Sub(expectedEndTime, now)
            IN  IF wt <= maxWait
                THEN [availableTokens |-> newAvailable, lastTick |-> tick,
                      waitTime |-> wt, succ |-> TRUE]
                ELSE [availableTokens |-> b.availableTokens, lastTick |-> tick,
                      waitTime |-> 0, succ |-> FALSE]

\* faulty variant of take: a wait equal to maxWait is refused
take_StrictWait(avail, lt, count, now, maxWait) ==
    IF count <= 0
    THEN [availableTokens |-> avail, lastTick |-> lt, waitTime |-> 0, succ |-> TRUE]
    ELSE IF prohibitOverflow /\ count > capacity
    THEN [availableTokens |-> avail, lastTick |-> lt, waitTime |-> 0, succ |-> FALSE]
    ELSE
      LET tick == currentTick(now)
          b == adjustAvailableTokens(avail, lt, tick)
          newAvailable == wrap(b.availableTokens - count)
      IN  IF newAvailable >= 0
          THEN [availableTokens |-> newAvailable, lastTick |-> tick,
                waitTime |-> 0, succ |-> TRUE]
          ELSE
            LET endTick == wrap(tick + GoDiv(wrap(wrap(-newAvailable) + quantum - 1), quantum))
                expectedEndTime == createTime + wrap(fillInterval * endTick)
                wt == Sub(expectedEndTime, now)
            IN  IF wt < maxWait
                THEN [availableTokens |-> newAvailable, lastTick |-> tick,
                      waitTime |-> wt, succ |-> TRUE]
                ELSE [availableTokens |-> b.availableTokens, lastTick |-> tick,
                      waitTime |-> 0, succ |-> FALSE]

\* faulty variant of take: the tokens are deducted before the wait is compared
take_DeductOnFail(avail, lt, count, now, maxWait) ==
    IF count <= 0
    THEN [availableTokens |-> avail, lastTick |-> lt, waitTime |-> 0, succ |-> TRUE]
    ELSE IF prohibitOverflow /\ count > capacity
    THEN [availableTokens |-> avail, lastTick |-> lt, waitTime |-> 0, succ |-> FALSE]
    ELSE
      LET tick == currentTick(now)
          b == adjustAvailableTokens(avail, lt, tick)
          newAvailable == wrap(b.availableTokens - count)
      IN  IF newAvailable >= 0
          THEN [availableTokens |-> newAvailable, lastTick |-> tick,
                waitTime |-> 0, succ |-> TRUE]
          ELSE
            LET endTick == wrap(tick + GoDiv(wrap(wrap(-newAvailable) + quantum - 1), quantum))
                expectedEndTime == createTime + wrap(fillInterval * endTick)
                wt == Sub(expectedEndTime, now)
            IN  IF wt <= maxWait
                THEN [availableTokens |-> newAvailable, lastTick |-> tick,
                      waitTime |-> wt, succ |-> TRUE]
                ELSE [availableTokens |-> newAvailable, lastTick |-> tick,
                      waitTime |-> 0, succ |-> FALSE]

\* faulty variant of take: the refill runs before the overflow check
take_RefillFirst(avail, lt, count, now, maxWait) ==
    IF count <= 0
    THEN [availableTokens |-> avail, lastTick |-> lt, waitTime |-> 0, succ |-> TRUE]
    ELSE IF prohibitOverflow /\ count > capacity
    THEN [availableTokens |-> adjustAvailableTokens(avail, lt, currentTick(now)).availableTokens,
          lastTick |-> currentTick(now), waitTime |-> 0, succ |-> FALSE]
    ELSE
      LET tick == currentTick(now)
          b == adjustAvailableTokens(avail, lt, tick)
          newAvailable == wrap(b.availableTokens - count)
      IN  IF newAvailable >= 0
          THEN [availableTokens |-> newAvailable, lastTick |-> tick,
                waitTime |-> 0, succ |-> TRUE]
          ELSE
            LET endTick == wrap(tick + GoDiv(wrap(wrap(-newAvailable) + quantum - 1), quantum))
                expectedEndTime == createTime + wrap(fillInterval * endTick)
                wt == Sub(expectedEndTime, now)
            IN  IF wt <= maxWait
                THEN [availableTokens |-> newAvailable, lastTick |-> tick,
                      waitTime |-> wt, succ |-> TRUE]
                ELSE [availableTokens |-> b.availableTokens, lastTick |-> tick,
                      waitTime |-> 0, succ |-> FALSE]

\* faulty variant of take: the deficit is rounded up one tick too far
take_RoundUp(avail, lt, count, now, maxWait) ==
    IF count <= 0
    THEN [availableTokens |-> avail, lastTick |-> lt, waitTime |-> 0, succ |-> TRUE]
    ELSE IF prohibitOverflow /\ count > capacity
    THEN [availableTokens |-> avail, lastTick |-> lt, waitTime |-> 0, succ |-> FALSE]
    ELSE
      LET tick == currentTick(now)
          b == adjustAvailableTokens(avail, lt, tick)
          newAvailable == wrap(b.availableTokens - count)
      IN  IF newAvailable >= 0
          THEN [availableTokens |-> newAvailable, lastTick |-> tick,
                waitTime |-> 0, succ |-> TRUE]
          ELSE
            LET endTick == wrap(tick + GoDiv(wrap(wrap(-newAvailable) + quantum), quantum))
                expectedEndTime == createTime + wrap(fillInterval * endTick)
                wt == Sub(expectedEndTime, now)
            IN  IF wt <= maxWait
                THEN [availableTokens |-> newAvailable, lastTick |-> tick,
                      waitTime |-> wt, succ |-> TRUE]
                ELSE [availableTokens |-> b.availableTokens, lastTick |-> tick,
                      waitTime |-> 0, succ |-> FALSE]

\* take: the new fields of the bucket, the wait and whether it succeeded
take(avail, lt, count, now, maxWait) ==
    IF count <= 0
    THEN [availableTokens |-> avail, lastTick |-> lt, waitTime |-> 0, succ |-> TRUE]
    ELSE IF prohibitOverflow /\ count > capacity
    THEN [availableTokens |-> avail, lastTick |-> lt, waitTime |-> 0, succ |-> FALSE]
    ELSE
      LET tick == currentTick(now)
          b == adjustAvailableTokens(avail, lt, tick)
          newAvailable == wrap(b.availableTokens - count)
      IN  IF newAvailable >= 0
          THEN [availableTokens |-> newAvailable, lastTick |-> tick,
                waitTime |-> 0, succ |-> TRUE]
          ELSE
            LET endTick == wrap(tick + GoDiv(wrap(wrap(-newAvailable) + quantum - 1), quantum))
                expectedEndTime == createTime + wrap(fillInterval * endTick)
                wt == Sub(expectedEndTime, now)
            IN  IF wt <= maxWait
                THEN [availableTokens |-> newAvailable, lastTick |-> tick,
                      waitTime |-> wt, succ |-> TRUE]
                ELSE [availableTokens |-> b.availableTokens, lastTick |-> tick,
                      waitTime |-> 0, succ |-> FALSE]

\* takeAvailable: the new fields of the bucket and realCount
takeAvailable(avail, lt, now, count) ==
    IF count <= 0
    THEN [availableTokens |-> avail, lastTick |-> lt, realCount |-> 0]
    ELSE
      LET b == adjustAvailableTokens(avail, lt, currentTick(now))
      IN  IF b.availableTokens < count
          THEN [availableTokens |-> 0, lastTick |-> b.lastTick,
                realCount |-> b.availableTokens]
          ELSE [availableTokens |-> wrap(b.availableTokens - count),
                lastTick |-> b.lastTick, realCount |-> count]

\* what Available() returns on a bucket holding avail tokens with lastTick lt
AvailableAt(avail, lt, now) ==
    adjustAvailableTokens(avail, lt, currentTick(now)).availableTokens

\* ------------------------------------------- Bucket (the older variant)
\* Bucket.currentTick and Bucket.adjustAvailableTokens are the same text as
\* TokenBucket's; Bucket.take has no overflow option and differs at count <= 0.
Bucket_take(avail, lt, count, now, maxWait) ==
    IF count <= 0
    THEN [availableTokens |-> avail, lastTick |-> lt, waitTime |-> 0, succ |-> FALSE]
    ELSE
      LET tick == currentTick(now)
          b == adjustAvailableTokens(avail, lt, tick)
          newAvailable == wrap(b.availableTokens - count)
      IN  IF newAvailable >= 0
          THEN [availableTokens |-> newAvailable, lastTick |-> tick,
                waitTime |-> 0, succ |-> TRUE]
          ELSE
            LET endTick == wrap(tick + GoDiv(wrap(wrap(-newAvailable) + quantum - 1), quantum))
                expectedEndTime == createTime + wrap(fillInterval * endTick)
                wt == Sub(expectedEndTime, now)
            IN  IF wt <= maxWait
                THEN [availableTokens |-> newAvailable, lastTick |-> tick,
                      waitTime |-> wt, succ |-> TRUE]
                ELSE [availableTokens |-> b.availableTokens, lastTick |-> tick,
                      waitTime |-> 0, succ |-> FALSE]

\* ------------------------------------------------------------ state
NoObs == [p |-> 0, op |-> "none", count |-> 0, maxWait |-> 0, now |-> 0,
          availableTokens |-> 0, lastTick |-> 0, waitTime |-> 0,
          succ |-> TRUE, err |-> FALSE, n |-> 0, emptied |-> -2, quiet |-> TRUE]

\* a caller that is not inside take has no locals
NoLocal == [count |-> 0, now |-> 0, tick |-> 0, newAvailable |-> 0, returned |-> FALSE,
            availableTokens |-> 0, lastTick |-> 0]

\* NewBucket: the bucket starts full, lastTick is the zero value, mu is free
Init ==
    /\ capacity \in Capacities
    /\ quantum \in Quanta
    /\ fillInterval \in FillIntervals
    /\ prohibitOverflow \in BOOLEAN
    /\ availableTokens = capacity
    /\ lastTick = 0
    /\ mu = 0
    /\ clock = createTime
    /\ pc = [p \in Procs |-> "idle"]
    /\ waitTime = [p \in Procs |-> 0]
    /\ wake = [p \in Procs |-> 0]
    /\ obs = NoObs
    /\ grants = <<>>
    /\ emptied = -2
    /\ local = [p \in Procs |-> NoLocal]

\* the older variant has no prohibitOverflow option
InitBucket == Init /\ prohibitOverflow = FALSE

\* the bucket of the burst: NewBucket(quantum, quantum, fillInterval)
InitBurst == Init /\ capacity = quantum

\* --------------------------------------------------------- doWithLock
\* a caller enters a public operation and doWithLock takes the lock
Call(p) ==
    /\ pc[p] \in {"idle", "done"}
    /\ mu = 0
    /\ mu' = p
    /\ pc' = [pc EXCEPT ![p] = "locked"]
    /\ UNCHANGED <<params, local, bucket, clock, waitTime, wake, obs, emptied, grants>>

\* a caller enters its one call and queues for the lock
CallOnce(p) ==
    /\ pc[p] = "idle"
    /\ pc' = [pc EXCEPT ![p] = "called"]
    /\ UNCHANGED <<params, local, bucket, mu, clock, waitTime, wake, obs, emptied, grants>>

\* faulty variant of Lock: the lock is handed out while another caller holds it
Lock_NoExclusion(p) ==
    /\ pc[p] = "called"
    /\ mu' = p
    /\ pc' = [pc EXCEPT ![p] = "locked"]
    /\ UNCHANGED <<params, local, bucket, clock, waitTime, wake, obs, emptied, grants>>

\* b.mu.Lock() of a queued caller
Lock(p) ==
    /\ pc[p] = "called"
    /\ mu = 0
    /\ mu' = p
    /\ pc' = [pc EXCEPT ![p] = "locked"]
    /\ UNCHANGED <<params, local, bucket, clock, waitTime, wake, obs, emptied, grants>>

\* no caller is waiting out a wait that Take or TryTake granted
NoWaiter ==
    \A q \in Procs : pc[q] # "sleeping" /\ (pc[q] = "sleep" => waitTime[q] <= 0)

\* waitTime = f(): the closure of operation op has run on the bucket with the
\* arguments count and maxWait; b holds the bucket's new fields, wt is the
\* duration the closure returned, res are the operation's results.
\* obs keeps the call, the bucket's fields before it, whether a caller was
\* waiting then (quiet) and the call's results until the caller unlocks. emptied is -1 after a TakeAvailable(capacity) that found
\* the bucket full, the time of an Available() = 0 that follows it directly,
\* and -2 after every other closure.
Closure(p, op, count, maxWait, b, wt, res) ==
    /\ pc[p] = "locked"
    /\ mu = p
    /\ availableTokens' = b.availableTokens
    /\ lastTick' = b.lastTick
    /\ waitTime' = [waitTime EXCEPT ![p] = wt]
    /\ pc' = [pc EXCEPT ![p] = "unlock"]
    /\ obs' = [p |-> p, op |-> op, count |-> count, maxWait |-> maxWait,
               now |-> clock, availableTokens |-> availableTokens,
               lastTick |-> lastTick, waitTime |-> wt,
               succ |-> res.succ, err |-> res.err, n |-> res.n,
               emptied |-> emptied, quiet |-> NoWaiter]
    /\ emptied' = IF op = "TakeAvailable" /\ count = capacity /\ res.n = capacity
                  THEN -1
                  ELSE IF op = "Available" /\ emptied = -1 /\ res.n = 0
                  THEN clock
                  ELSE -2
    /\ UNCHANGED <<params, local, mu, clock, wake>>

\* faulty variant of Unlock: the lock is never released
Unlock_Forget(p) ==
    /\ pc[p] = "unlock"
    /\ pc' = [pc EXCEPT ![p] = "sleep"]
    /\ obs' = NoObs
    /\ UNCHANGED <<params, local, bucket, mu, clock, waitTime, wake, emptied, grants>>

\* defer b.mu.Unlock()
Unlock(p) ==
    /\ pc[p] = "unlock"
    /\ mu' = 0
    /\ pc' = [pc EXCEPT ![p] = "sleep"]
    /\ obs' = NoObs
    /\ UNCHANGED <<params, local, bucket, clock, waitTime, wake, emptied, grants>>

\* b.clock.Sleep(waitTime) on the standard clock: returns at once for a
\* duration <= 0, else not before the duration has passed
Sleep(p) ==
    /\ pc[p] = "sleep"
    /\ IF waitTime[p] <= 0
       THEN /\ pc' = [pc EXCEPT ![p] = "done"]
            /\ wake' = wake
       ELSE /\ pc' = [pc EXCEPT ![p] = "sleeping"]
            /\ wake' = [wake EXCEPT ![p] = clock + waitTime[p]]
    /\ waitTime' = [waitTime EXCEPT ![p] = 0]
    /\ UNCHANGED <<params, local, bucket, mu, clock, obs, emptied, grants>>

\* the sleep is over and the operation returns to its caller
Wake(p) ==
    /\ pc[p] = "sleeping"
    /\ clock >= wake[p]
    /\ pc' = [pc EXCEPT ![p] = "done"]
    /\ wake' = [wake EXCEPT ![p] = 0]
    /\ UNCHANGED <<params, local, bucket, mu, clock, waitTime, obs, emptied, grants>>

\* ------------------------------------------- the TokenBucket operations
\* Available's closure
Available(p) ==
    /\ pc[p] = "locked"
    /\ \E b \in {adjustAvailableTokens(availableTokens, lastTick, currentTick(clock))} :
           Closure(p, "Available", 0, 0, b, 0,
                   [succ |-> TRUE, err |-> FALSE,
                    n |-> AvailableAt(availableTokens, lastTick, clock)])
    /\ UNCHANGED grants

\* Take's closure, for the call Take(count)
TakeCall(p, count) ==
    /\ pc[p] = "locked"
    /\ \E r \in {take(availableTokens, lastTick, count, clock, infinityDuration)} :
           IF r.succ
           THEN Closure(p, "Take", count, infinityDuration, r, r.waitTime,
                        [succ |-> TRUE, err |-> FALSE, n |-> 0])
           ELSE Closure(p, "Take", count, infinityDuration, r, 0,
                        [succ |-> FALSE, err |-> TRUE, n |-> 0])

\* Take's closure, for any count
Take(p) ==
    /\ \E count \in Counts : TakeCall(p, count)
    /\ UNCHANGED grants

\* TakeAvailable's closure, for a call TakeAvailable(count)
TakeAvailable(p) ==
    /\ pc[p] = "locked"
    /\ \E count \in Counts :
         \E r \in {takeAvailable(availableTokens, lastTick, clock, count)} :
             Closure(p, "TakeAvailable", count, 0, r, 0,
                     [succ |-> TRUE, err |-> FALSE, n |-> r.realCount])
    /\ UNCHANGED grants

\* faulty variant of TryTake: a refused call sleeps out maxWait before it returns
TryTake_SleepOnFail(p) ==
    /\ pc[p] = "locked"
    /\ \E count \in Counts, maxWait \in MaxWaits :
         \E r \in {take(availableTokens, lastTick, count, clock, maxWait)} :
             IF r.succ
             THEN Closure(p, "TryTake", count, maxWait, r, r.waitTime,
                          [succ |-> TRUE, err |-> FALSE, n |-> 0])
             ELSE Closure(p, "TryTake", count, maxWait, r, maxWait,
                          [succ |-> FALSE, err |-> FALSE, n |-> 0])
    /\ UNCHANGED grants

\* TryTake's closure, for a call TryTake(count, maxWait)
TryTake(p) ==
    /\ pc[p] = "locked"
    /\ \E count \in Counts, maxWait \in MaxWaits :
         \E r \in {take(availableTokens, lastTick, count, clock, maxWait)} :
             IF r.succ
             THEN Closure(p, "TryTake", count, maxWait, r, r.waitTime,
                          [succ |-> TRUE, err |-> FALSE, n |-> 0])
             ELSE Closure(p, "TryTake", count, maxWait, r, 0,
                          [succ |-> FALSE, err |-> FALSE, n |-> 0])
    /\ UNCHANGED grants

\* ------------------------------------------------ the Bucket operations
\* Bucket.Available's closure
BucketAvailable(p) ==
    /\ pc[p] = "locked"
    /\ \E b \in {adjustAvailableTokens(availableTokens, lastTick, currentTick(clock))} :
           Closure(p, "Available", 0, 0, b, 0,
                   [succ |-> TRUE, err |-> FALSE,
                    n |-> AvailableAt(availableTokens, lastTick, clock)])
    /\ UNCHANGED grants

\* Bucket.Take's closure: succ is dropped, Take returns nothing
BucketTake(p) ==
    /\ pc[p] = "locked"
    /\ \E count \in Counts :
         \E r \in {Bucket_take(availableTokens, lastTick, count, clock, infinityDuration)} :
             Closure(p, "Take", count, infinityDuration, r, r.waitTime,
                     [succ |-> r.succ, err |-> FALSE, n |-> 0])
    /\ UNCHANGED grants

\* Bucket.TakeAvailable's closure
BucketTakeAvailable(p) ==
    /\ pc[p] = "locked"
    /\ \E count \in Counts :
         \E r \in {takeAvailable(availableTokens, lastTick, clock, count)} :
             Closure(p, "TakeAvailable", count, 0, r, 0,
                     [succ |-> TRUE, err |-> FALSE, n |-> r.realCount])
    /\ UNCHANGED grants

\* Bucket.TryTake's closure
BucketTryTake(p) ==
    /\ pc[p] = "locked"
    /\ \E count \in Counts, maxWait \in MaxWaits :
         \E r \in {Bucket_take(availableTokens, lastTick, count, clock, maxWait)} :
             IF r.succ
             THEN Closure(p, "TryTake", count, maxWait, r, r.waitTime,
                          [succ |-> TRUE, err |-> FALSE, n |-> 0])
             ELSE Closure(p, "TryTake", count, maxWait, r, 0,
                          [succ |-> FALSE, err |-> FALSE, n |-> 0])
    /\ UNCHANGED grants

\* ------------------------------------------------------------ the clock
\* faulty variant of Tick: a clock that is not monotonic
Tick_Back ==
    /\ \E now \in 0..MaxTime : clock' = now
    /\ clock' # clock
    /\ UNCHANGED <<params, local, bucket, mu, pc, waitTime, wake, obs, emptied, grants>>

\* time passes
Tick ==
    /\ clock < MaxTime
    /\ clock' = clock + 1
    /\ UNCHANGED <<params, local, bucket, mu, pc, waitTime, wake, obs, emptied, grants>>

\* time passes, and keeps passing while a caller sleeps
TickOn ==
    /\ \/ clock < MaxTime
       \/ \E p \in Procs : pc[p] = "sleeping" /\ wake[p] > clock
    /\ clock' = clock + 1
    /\ UNCHANGED <<params, local, bucket, mu, pc, waitTime, wake, obs, emptied, grants>>

\* time passes until the first caller takes the lock, and then stands still
TickBefore ==
    /\ clock < MaxTime
    /\ \A p \in Procs : pc[p] \in {"idle", "called"}
    /\ clock' = clock + 1
    /\ UNCHANGED <<params, local, bucket, mu, pc, waitTime, wake, obs, emptied, grants>>

\* ------------------------------------------------------- specifications
\* two callers looping over the four operations of a TokenBucket
Next ==
    \/ \E p \in Callers : Call(p)
    \/ \E p \in Callers : Available(p)
    \/ \E p \in Callers : Take(p)
    \/ \E p \in Callers : TakeAvailable(p)
    \/ \E p \in Callers : TryTake(p)
    \/ \E p \in Callers : Unlock(p)
    \/ \E p \in Callers : Sleep(p)
    \/ \E p \in Callers : Wake(p)
    \/ Tick

Spec == Init /\ [][Next]_vars

\* the closure just run, entered in the history of grants
Granted ==
    grants' = Append(grants, [p |-> obs'.p, count |-> obs'.count,
                              now |-> obs'.now, waitTime |-> obs'.waitTime])

\* a caller's one Take, of any count
TakeOnce(p) ==
    /\ \E count \in Counts : TakeCall(p, count)
    /\ Granted

NextTake ==
    \/ \E p \in Callers : CallOnce(p)
    \/ \E p \in Callers : Lock(p)
    \/ \E p \in Callers : TakeOnce(p)
    \/ \E p \in Callers : Unlock(p)
    \/ \E p \in Callers : Sleep(p)
    \/ \E p \in Callers : Wake(p)
    \/ TickOn

\* two concurrent callers that each call Take once. sync.Mutex hands the lock
\* to a waiting caller, every goroutine keeps running, the clock advances.
SpecTake ==
    /\ Init
    /\ [][NextTake]_vars
    /\ \A p \in Callers : WF_vars(Lock(p))
    /\ \A p \in Callers : WF_vars(TakeOnce(p))
    /\ \A p \in Callers : WF_vars(Unlock(p))
    /\ \A p \in Callers : WF_vars(Sleep(p))
    /\ \A p \in Callers : WF_vars(Wake(p))
    /\ WF_vars(TickOn)

\* a caller's one Take(quantum)
TakeQuantum(p) ==
    /\ TakeCall(p, quantum)
    /\ Granted

NextBurst ==
    \/ \E p \in Procs : CallOnce(p)
    \/ \E p \in Procs : Lock(p)
    \/ \E p \in Procs : TakeQuantum(p)
    \/ \E p \in Procs : Unlock(p)
    \/ \E p \in Procs : Sleep(p)
    \/ \E p \in Procs : Wake(p)
    \/ TickOn

\* NumProcs goroutines that each call Take(quantum) on a bucket with
\* capacity = quantum (testBucket)
SpecBurst == InitBurst /\ [][NextBurst]_vars

\* two callers looping over the four operations of the older Bucket
NextBucket ==
    \/ \E p \in Callers : Call(p)
    \/ \E p \in Callers : BucketAvailable(p)
    \/ \E p \in Callers : BucketTake(p)
    \/ \E p \in Callers : BucketTakeAvailable(p)
    \/ \E p \in Callers : BucketTryTake(p)
    \/ \E p \in Callers : Unlock(p)
    \/ \E p \in Callers : Sleep(p)
    \/ \E p \in Callers : Wake(p)
    \/ Tick

SpecBucket == InitBucket /\ [][NextBucket]_vars

RECURSIVE GrantedBy(_, _)
\* the tokens a ledger holds with grant time at or before T
GrantedBy(ledger, T) ==
    IF T < 0 THEN 0 ELSE ledger[T] + GrantedBy(ledger, T - 1)

\* the closure just run, entered in the ledger: grants[t] is the number of
\* tokens granted with grant time t (the time of the call plus the wait
\* granted). Take and TryTake grant count when they succeed; TakeAvailable
\* grants the realCount it returns, and nothing when that is not positive.
Ledgered ==
    LET o == obs'
        tokens == IF o.op = "TakeAvailable" THEN o.n
                  ELSE IF o.succ THEN o.count ELSE 0
        t == o.now + o.waitTime
    IN  grants' = IF tokens > 0 /\ t <= MaxTime
                  THEN [grants EXCEPT ![t] = @ + tokens]
                  ELSE grants

\* the ledger is kept while it holds fewer than MaxGranted tokens
LedgerOpen == GrantedBy(grants, MaxTime) < MaxGranted

\* a Take whose grant is entered in the ledger
TakeLedgered(p) ==
    /\ pc[p] = "locked"
    /\ LedgerOpen
    /\ \E count \in Counts : TakeCall(p, count)
    /\ Ledgered

\* a TryTake whose grant is entered in the ledger
TryTakeLedgered(p) ==
    /\ pc[p] = "locked"
    /\ LedgerOpen
    /\ \E count \in Counts, maxWait \in MaxWaits :
         \E r \in {take(availableTokens, lastTick, count, clock, maxWait)} :
             IF r.succ
             THEN Closure(p, "TryTake", count, maxWait, r, r.waitTime,
                          [succ |-> TRUE, err |-> FALSE, n |-> 0])
             ELSE Closure(p, "TryTake", count, maxWait, r, 0,
                          [succ |-> FALSE, err |-> FALSE, n |-> 0])
    /\ Ledgered

\* a TakeAvailable whose grant is entered in the ledger
TakeAvailableLedgered(p) ==
    /\ pc[p] = "locked"
    /\ LedgerOpen
    /\ \E count \in Counts :
         \E r \in {takeAvailable(availableTokens, lastTick, clock, count)} :
             Closure(p, "TakeAvailable", count, 0, r, 0,
                     [succ |-> TRUE, err |-> FALSE, n |-> r.realCount])
    /\ Ledgered

\* a fresh bucket and an empty ledger
InitRate ==
    /\ capacity \in Capacities
    /\ quantum \in Quanta
    /\ fillInterval \in FillIntervals
    /\ prohibitOverflow \in BOOLEAN
    /\ availableTokens = capacity
    /\ lastTick = 0
    /\ mu = 0
    /\ clock = createTime
    /\ pc = [p \in Procs |-> "idle"]
    /\ waitTime = [p \in Procs |-> 0]
    /\ wake = [p \in Procs |-> 0]
    /\ obs = NoObs
    /\ grants = [t \in 0..MaxTime |-> 0]
    /\ emptied = -2
    /\ local = [p \in Procs |-> NoLocal]

NextRate ==
    \/ \E p \in Callers : Call(p)
    \/ \E p \in Callers : TakeLedgered(p)
    \/ \E p \in Callers : TryTakeLedgered(p)
    \/ \E p \in Callers : TakeAvailableLedgered(p)
    \/ \E p \in Callers : Unlock(p)
    \/ \E p \in Callers : Sleep(p)
    \/ \E p \in Callers : Wake(p)
    \/ Tick

\* two callers looping over the operations that grant tokens, with a ledger
SpecRate == InitRate /\ [][NextRate]_vars

\* Take's closure up to the read of the balance: now is read, take returns at
\* once for count <= 0 or a prohibited overflow, else it refills, which writes
\* lastTick and availableTokens, and reads newAvailable := availableTokens - count
\* into its locals. local also keeps the bucket's fields as the call found them.
TakeBegin(p) ==
    /\ pc[p] = "locked"
    /\ \E count \in Counts :
         IF count <= 0 \/ (prohibitOverflow /\ count > capacity)
         THEN /\ local' = [local EXCEPT ![p] =
                     [count |-> count, now |-> clock, tick |-> 0, newAvailable |-> 0,
                      returned |-> TRUE,
                      availableTokens |-> availableTokens, lastTick |-> lastTick]]
              /\ UNCHANGED bucket
         ELSE \E b \in {adjustAvailableTokens(availableTokens, lastTick, currentTick(clock))} :
              /\ availableTokens' = b.availableTokens
              /\ lastTick' = b.lastTick
              /\ local' = [local EXCEPT ![p] =
                     [count |-> count, now |-> clock, tick |-> currentTick(clock),
                      newAvailable |-> wrap(b.availableTokens - count),
                      returned |-> FALSE,
                      availableTokens |-> availableTokens, lastTick |-> lastTick]]
    /\ pc' = [pc EXCEPT ![p] = "taking"]
    /\ UNCHANGED <<params, mu, clock, waitTime, wake, obs, emptied, grants>>

\* the rest of Take's closure: the wait is computed from the locals and
\* newAvailable is written back when the request is granted
TakeCommit(p) ==
    /\ pc[p] = "taking"
    /\ LET l == local[p]
           endTick == wrap(l.tick + GoDiv(wrap(wrap(-l.newAvailable) + quantum - 1), quantum))
           wt == Sub(createTime + wrap(fillInterval * endTick), l.now)
           granted == ~l.returned /\ (l.newAvailable >= 0 \/ wt <= infinityDuration)
           succ == IF l.returned THEN l.count <= 0 ELSE granted
           w == IF granted /\ l.newAvailable < 0 THEN wt ELSE 0
       IN  /\ availableTokens' = IF granted THEN l.newAvailable ELSE availableTokens
           /\ waitTime' = [waitTime EXCEPT ![p] = w]
           /\ obs' = [p |-> p, op |-> "Take", count |-> l.count,
                      maxWait |-> infinityDuration, now |-> l.now,
                      availableTokens |-> l.availableTokens,
                      lastTick |-> l.lastTick, waitTime |-> w,
                      succ |-> succ, err |-> ~succ, n |-> 0,
                      emptied |-> emptied, quiet |-> NoWaiter]
           /\ grants' = Append(grants, [p |-> p, count |-> l.count,
                                        now |-> l.now, waitTime |-> w])
    /\ local' = [local EXCEPT ![p] = NoLocal]
    /\ pc' = [pc EXCEPT ![p] = "unlock"]
    /\ emptied' = -2
    /\ UNCHANGED <<params, lastTick, mu, clock, wake>>

NextSplit ==
    \/ \E p \in Procs : CallOnce(p)
    \/ \E p \in Procs : Lock(p)
    \/ \E p \in Procs : TakeBegin(p)
    \/ \E p \in Procs : TakeCommit(p)
    \/ \E p \in Procs : Unlock(p)
    \/ \E p \in Procs : Sleep(p)
    \/ TickBefore

\* NumProcs goroutines that each call Take once, with the reads and writes of
\* take's critical section as two steps; the clock stands still from the first
\* Lock on, so no sleep ends
SpecSplit == Init /\ [][NextSplit]_vars

\* positive counts over the whole range of an int64: the smallest, those
\* around half the largest value, and the largest
WideCounts ==
    {c \in 1..MaxInt :
        \/ c <= MaxCount
        \/ c >= MaxInt \div 2 /\ c <= MaxInt \div 2 + MaxCount
        \/ c >= MaxInt - MaxCount}

\* Take's closure, for a count drawn from the whole positive range
TakeWide(p) ==
    /\ \E count \in WideCounts : TakeCall(p, count)
    /\ UNCHANGED grants

NextWide ==
    \/ \E p \in Callers : CallOnce(p)
    \/ \E p \in Callers : Lock(p)
    \/ \E p \in Callers : TakeWide(p)
    \/ \E p \in Callers : Unlock(p)
    \/ \E p \in Callers : Sleep(p)
    \/ \E p \in Callers : Wake(p)
    \/ Tick

\* two concurrent callers that each call Take once, with counts up to the
\* largest int64
SpecWide == Init /\ [][NextWide]_vars

\* the instants the mock clock is set to, before and after createTime
Nows == (createTime - MaxTime)..(createTime + MaxTime)

\* mockClock.mockNow: the test sets the clock to any instant
mockNow ==
    /\ \E now \in Nows : clock' = now
    /\ clock' # clock
    /\ UNCHANGED <<params, local, bucket, mu, pc, waitTime, wake, obs, emptied, grants>>

\* testTick: currentTick applied to the clock's instant; grants keeps the last
\* two applications, obs the last one
testTick ==
    /\ \E ct \in {currentTick(clock)} :
          /\ obs' = [NoObs EXCEPT !.op = "currentTick", !.now = clock, !.n = ct]
          /\ grants' = IF grants = <<>>
                       THEN <<[now |-> clock, tick |-> ct]>>
                       ELSE <<grants[Len(grants)], [now |-> clock, tick |-> ct]>>
    /\ UNCHANGED <<params, local, bucket, mu, clock, pc, waitTime, wake, emptied>>

NextTick ==
    \/ mockNow
    \/ testTick

\* currentTick applied to instants drawn from Nows, on every bucket of Init
SpecTick == Init /\ [][NextTick]_vars

\* --------------------------------------------------------------- claims
Min(a, b) == IF a < b THEN a ELSE b

\* the balance after the lazy refill at time now, as a formula: whole fill
\* intervals since lastTick times quantum are added, up to capacity
Refilled(avail, lt, now) ==
    IF avail >= capacity
    THEN avail
    ELSE Min(capacity, avail + (((now - createTime) \div fillInterval) - lt) * quantum)

\* the wait a request o needs: zero when the refilled balance covers count,
\* else the time from now to the tick at which the deficit is refilled
RequiredWait(o) ==
    LET bal == Refilled(o.availableTokens, o.lastTick, o.now)
        tick == (o.now - createTime) \div fillInterval
        k == ((o.count - bal) + quantum - 1) \div quantum
    IN  IF bal >= o.count
        THEN 0
        ELSE createTime + fillInterval * (tick + k) - o.now

C2_TakeError ==
    obs.op = "Take" => (obs.err <=> (prohibitOverflow /\ obs.count > capacity))

\* a Take of more than capacity, on a bucket already overdrawn and built
\* without the option, returns nil
C2_Witness ==
    /\ obs.op = "Take"
    /\ ~prohibitOverflow
    /\ obs.count > capacity
    /\ obs.availableTokens < 0
    /\ ~obs.err

\* C3 (as stated): TryTake returns false exactly when the required wait
\* strictly exceeds maxWait, for every count, balance and maxWait.
C3_Original ==
    obs.op = "TryTake" => (~obs.succ <=> RequiredWait(obs) > obs.maxWait)

\* C3 (amended): TryTake returns false exactly when the bucket prohibits
\* overflow and count > capacity, or when count > 0, the refilled balance is
\* less than count and the required wait strictly exceeds maxWait.
C3_TryTake ==
    obs.op = "TryTake" =>
        (~obs.succ <=>
            \/ prohibitOverflow /\ obs.count > capacity
            \/ /\ obs.count > 0
               /\ Refilled(obs.availableTokens, obs.lastTick, obs.now) < obs.count
               /\ RequiredWait(obs) > obs.maxWait)

\* a TryTake refused only because its wait exceeds a maxWait >= 0
C3_Witness ==
    /\ obs.op = "TryTake"
    /\ ~obs.succ
    /\ obs.count <= capacity
    /\ obs.maxWait >= 0
    /\ RequiredWait(obs) > obs.maxWait

\* C4: after a TryTake that returned false, Available() at the same clock time
\* returns what it would have returned before the call.
C4_FailedTryTake ==
    (obs.op = "TryTake" /\ ~obs.succ) =>
        AvailableAt(availableTokens, lastTick, obs.now)
            = AvailableAt(obs.availableTokens, obs.lastTick, obs.now)

\* a refused TryTake whose refill did change the stored balance
C4_Witness ==
    /\ obs.op = "TryTake"
    /\ ~obs.succ
    /\ availableTokens # obs.availableTokens

\* C5 (as stated): TakeAvailable(count) with count > 0 returns r with
\* 0 <= r <= min(count, capacity), and r is at most the refilled balance.
C5_Original ==
    (obs.op = "TakeAvailable" /\ obs.count > 0) =>
        /\ 0 <= obs.n
        /\ obs.n <= Min(obs.count, capacity)
        /\ obs.n <= Refilled(obs.availableTokens, obs.lastTick, obs.now)

\* C6: with overflow prohibited, a Take or TryTake of more than capacity fails,
\* leaves availableTokens and lastTick as they were and returns no wait.
C6_Rejected ==
    (prohibitOverflow /\ obs.op \in {"Take", "TryTake"} /\ obs.count > capacity) =>
        /\ ~obs.succ
        /\ obs.op = "Take" => obs.err
        /\ availableTokens = obs.availableTokens
        /\ lastTick = obs.lastTick
        /\ waitTime[obs.p] = 0

\* a rejected request on a bucket that a refill would have changed
C6_Witness ==
    /\ prohibitOverflow
    /\ obs.op \in {"Take", "TryTake"}
    /\ obs.count > capacity
    /\ obs.availableTokens < capacity
    /\ obs.lastTick < currentTick(obs.now)

\* C7: after TakeAvailable(capacity) on a full bucket and an Available() = 0,
\* the next operation, an Available() exactly k fill intervals later, returns
\* min(k * quantum, capacity).
C7_Refill ==
    (/\ obs.op = "Available"
     /\ obs.emptied >= 0
     /\ (obs.now - obs.emptied) % fillInterval = 0) =>
        obs.n = Min(((obs.now - obs.emptied) \div fillInterval) * quantum, capacity)

\* one fill interval after the bucket was drained, below capacity
C7_Witness ==
    /\ obs.op = "Available"
    /\ obs.emptied >= 0
    /\ obs.now - obs.emptied = fillInterval
    /\ obs.n = quantum
    /\ quantum < capacity

\* C8: when every caller of the burst runs its Take(quantum) while the clock
\* stands at createTime, the i-th caller to hold the lock (from 0) is granted
\* a wait of i fill intervals; no caller is granted twice, and a caller that
\* has returned was granted once.
C8_Burst ==
    /\ (\A i \in DOMAIN grants : grants[i].now = createTime) =>
           \A i \in DOMAIN grants : grants[i].waitTime = (i - 1) * fillInterval
    /\ \A i, j \in DOMAIN grants : grants[i].p = grants[j].p => i = j
    /\ \A p \in Procs : pc[p] = "done" => \E i \in DOMAIN grants : grants[i].p = p

\* all callers of the burst were granted at createTime and have returned
C8_Witness ==
    /\ Len(grants) = NumProcs
    /\ \A i \in DOMAIN grants : grants[i].now = createTime
    /\ \A p \in Procs : pc[p] = "done"

\* C9 (as stated): for count <= 0, Take returns nil, TryTake returns true,
\* TakeAvailable returns 0, none sleeps and the bucket is unchanged.
C9_Original ==
    (obs.op \in {"Take", "TryTake", "TakeAvailable"} /\ obs.count <= 0) =>
        /\ obs.op = "Take" => ~obs.err
        /\ obs.op = "TryTake" => obs.succ
        /\ obs.op = "TakeAvailable" => obs.n = 0
        /\ waitTime[obs.p] = 0
        /\ availableTokens = obs.availableTokens
        /\ lastTick = obs.lastTick

\* the deadline of a grant: the time of the call plus the wait granted
Deadline(g) == g.now + g.waitTime

\* of callers that both wait, the later lock holder's deadline is not earlier
DeadlinesInLockOrder ==
    \A i, j \in DOMAIN grants :
        (i < j /\ grants[i].waitTime > 0 /\ grants[j].waitTime > 0) =>
            Deadline(grants[i]) <= Deadline(grants[j])

\* C10: every Take call of concurrent callers returns in the end, and callers
\* that both wait are granted deadlines in the order they held the lock.
C10_TakeReturns ==
    /\ []DeadlinesInLockOrder
    /\ \A p \in Callers : (pc[p] = "called") ~> (pc[p] = "done")

\* two callers that both waited, the second for longer, have returned
C10_Witness ==
    /\ Len(grants) = 2
    /\ grants[1].waitTime > 0
    /\ grants[2].waitTime > 0
    /\ Deadline(grants[1]) < Deadline(grants[2])
    /\ \A p \in Callers : pc[p] = "done"

\* C11: no caller sleeps while holding the lock: a caller that has reached
\* b.clock.Sleep, or is sleeping out its wait, does not own mu.
C11_SleepsUnlocked ==
    \A p \in Procs : pc[p] \in {"sleep", "sleeping"} => mu # p

\* while one caller still sleeps, another has locked and reserved tokens
C11_Witness ==
    \E p, q \in Callers :
        /\ p # q
        /\ pc[p] = "sleeping"
        /\ wake[p] > clock
        /\ pc[q] = "unlock"
        /\ mu = q
        /\ obs.p = q
        /\ obs.op \in {"Take", "TryTake"}
        /\ obs.waitTime > 0

\* a take that succeeded by reservation: the refilled balance was short of
\* count and the request was granted against future refill
Reserved(o) ==
    /\ o.op \in {"Take", "TryTake"}
    /\ o.succ
    /\ o.count > 0
    /\ Refilled(o.availableTokens, o.lastTick, o.now) < o.count

\* C12 (as stated): at the deadline of a reservation, with no operation in
\* between, the balance is what refilling the undebited balance up to the
\* deadline (capped at capacity) and deducting count then would give, and >= 0.
C12_Original ==
    Reserved(obs) =>
        LET deadline == obs.now + obs.waitTime
            atDeadline == AvailableAt(availableTokens, lastTick, deadline)
        IN  /\ atDeadline = Refilled(obs.availableTokens, obs.lastTick, deadline) - obs.count
            /\ atDeadline >= 0

\* C12 (amended): at the deadline of a reservation, with no operation in
\* between, the balance is min(capacity, a - count + k * quantum), where a is
\* the refilled balance at the call and k the ticks from the call to the
\* deadline; it is >= 0 and never less than the delayed deduction would leave,
\* and equal to it when a + k * quantum <= capacity.
C12_Reservation ==
    Reserved(obs) =>
        LET deadline == obs.now + obs.waitTime
            atDeadline == AvailableAt(availableTokens, lastTick, deadline)
            a == Refilled(obs.availableTokens, obs.lastTick, obs.now)
            k == (deadline \div fillInterval) - (obs.now \div fillInterval)
            delayed == Refilled(obs.availableTokens, obs.lastTick, deadline) - obs.count
        IN  /\ atDeadline = Min(capacity, a - obs.count + k * quantum)
            /\ atDeadline >= 0
            /\ atDeadline >= delayed
            /\ a + k * quantum <= capacity => atDeadline = delayed

\* a reservation whose balance at the deadline exceeds what the delayed
\* deduction would leave
C12_Witness ==
    /\ Reserved(obs)
    /\ obs.waitTime > 0
    /\ AvailableAt(availableTokens, lastTick, obs.now + obs.waitTime)
           > Refilled(obs.availableTokens, obs.lastTick, obs.now + obs.waitTime) - obs.count

\* the least number of further ticks after which refilling a balance a covers count
TicksToCover(a, count) ==
    CHOOSE k \in 1..MaxInt :
        /\ a + k * quantum >= count
        /\ a + (k - 1) * quantum < count

\* C13: when the refilled balance a is short of count, the wait of a granted
\* take is createTime + fillInterval * (tick + k) - now, where k is the least
\* number of further ticks whose refill covers the deficit, k equals
\* ceil((count - a) / quantum), and (k - 1) * fillInterval < wait <= k * fillInterval.
C13_Wait ==
    Reserved(obs) =>
        LET a == Refilled(obs.availableTokens, obs.lastTick, obs.now)
            tick == (obs.now - createTime) \div fillInterval
            k == TicksToCover(a, obs.count)
        IN  /\ obs.waitTime = createTime + fillInterval * (tick + k) - obs.now
            /\ k * quantum >= obs.count - a
            /\ (k - 1) * quantum < obs.count - a
            /\ (k - 1) * fillInterval < obs.waitTime
            /\ obs.waitTime <= k * fillInterval

\* a reservation made inside a fill interval that needs two further ticks
C13_Witness ==
    /\ Reserved(obs)
    /\ (obs.now - createTime) % fillInterval # 0
    /\ TicksToCover(Refilled(obs.availableTokens, obs.lastTick, obs.now), obs.count) = 2
    /\ obs.waitTime < 2 * fillInterval

\* the duration the lock holder's closure has handed to doWithLock's Sleep
C14_Durations ==
    /\ obs.op = "TryTake" =>
           /\ waitTime[obs.p] > 0 =>
                  /\ obs.succ
                  /\ waitTime[obs.p] = RequiredWait(obs)
                  /\ waitTime[obs.p] <= obs.maxWait
           /\ ~obs.succ => waitTime[obs.p] = 0
    /\ obs.op \in {"Available", "TakeAvailable"} => waitTime[obs.p] = 0

\* a caller that starts to sleep sleeps for exactly the duration its closure returned
SleepsForWait ==
    \A p \in Procs :
        (pc[p] = "sleep" /\ pc'[p] = "sleeping") =>
            (waitTime[p] > 0 /\ wake'[p] = clock + waitTime[p])

\* C14: TryTake sleeps for a positive duration only when it returns true, then
\* for the wait computed under the lock, which is at most maxWait; a TryTake
\* that returns false, Available and TakeAvailable sleep for zero time.
C14_TryTakeSleep ==
    /\ []C14_Durations
    /\ [][SleepsForWait]_vars

\* a TryTake granted a positive wait equal to its maxWait
C14_Witness ==
    /\ obs.op = "TryTake"
    /\ obs.succ
    /\ waitTime[obs.p] > 0
    /\ waitTime[obs.p] = obs.maxWait

\* C15 (as stated): currentTick(now) is floor((now - createTime) / fillInterval)
\* for every now, and is non-decreasing in now.
C15_Original ==
    /\ obs.op = "currentTick" => obs.n = (obs.now - createTime) \div fillInterval
    /\ Len(grants) = 2 =>
           (grants[1].now <= grants[2].now => grants[1].tick <= grants[2].tick)

\* C15 (amended): currentTick(now) is floor((now - createTime) / fillInterval)
\* for now >= createTime, so currentTick(createTime + d * fillInterval) = d for
\* d >= 0; for now < createTime the quotient is truncated toward zero, which is
\* the ceiling; currentTick is non-decreasing in now over all instants.
C15_CurrentTick ==
    /\ obs.op = "currentTick" =>
           /\ obs.now >= createTime =>
                  obs.n = (obs.now - createTime) \div fillInterval
           /\ obs.now < createTime =>
                  obs.n = -((createTime - obs.now) \div fillInterval)
           /\ \A d \in 0..MaxTime :
                  obs.now = createTime + d * fillInterval => obs.n = d
    /\ Len(grants) = 2 =>
           (grants[1].now <= grants[2].now => grants[1].tick <= grants[2].tick)

\* currentTick applied inside a fill interval after createTime, two ticks on
C15_Witness ==
    /\ obs.op = "currentTick"
    /\ obs.now > createTime
    /\ (obs.now - createTime) % fillInterval # 0
    /\ obs.n = 1
    /\ Len(grants) = 2
    /\ grants[1].now < createTime
    /\ grants[1].tick < 0

\* C16 (as stated): for every time T, the tokens granted with grant time at or
\* before T are at most capacity + quantum * tick(T).
C16_Original ==
    \A T \in 0..MaxTime :
        GrantedBy(grants, T) <= capacity + quantum * currentTick(T)

\* C17 (as stated): TakeAvailable never raises the balance: availableTokens
\* after the call is at most the refilled balance at the time of the call, so
\* a negative balance stays negative.
C17_Original ==
    obs.op = "TakeAvailable" =>
        LET a == Refilled(obs.availableTokens, obs.lastTick, obs.now)
        IN  /\ availableTokens <= a
            /\ a < 0 => availableTokens < 0

RECURSIVE SumCounts(_)
\* the sum of the counts of a sequence of grants
SumCounts(g) ==
    IF g = <<>> THEN 0 ELSE g[1].count + SumCounts(Tail(g))

\* at most one caller is between Lock and Unlock
MutualExclusion ==
    \A p, q \in Procs :
        (pc[p] \in {"locked", "taking", "unlock"} /\ pc[q] \in {"locked", "taking", "unlock"})
            => p = q

\* a caller that has finished take has left the bucket as one uninterrupted
\* take on the fields it found would have
ActsAsOne ==
    \A p \in Procs :
        (pc[p] = "unlock" /\ obs.p = p) =>
            LET r == take(obs.availableTokens, obs.lastTick, obs.count, obs.now,
                          infinityDuration)
            IN  /\ availableTokens = r.availableTokens
                /\ lastTick = r.lastTick
                /\ waitTime[p] = r.waitTime
                /\ obs.succ = r.succ

\* C18: the critical sections exclude each other and no update is lost: when
\* the Take(c) calls made so far, each with c > 0 on a bucket that does not
\* prohibit overflow, all read the same instant, availableTokens is the
\* starting balance minus the sum of their counts.
C18_NoLostUpdate ==
    /\ MutualExclusion
    /\ ActsAsOne
    /\ (/\ ~prohibitOverflow
        /\ \A p \in Procs : pc[p] # "taking"
        /\ \A i \in DOMAIN grants :
               grants[i].count > 0 /\ grants[i].now = grants[1].now)
           => availableTokens = capacity - SumCounts(grants)

\* every caller has taken a different count at one instant and left its
\* critical section, and the balance is in debt
C18_Witness ==
    /\ ~prohibitOverflow
    /\ Len(grants) = NumProcs
    /\ \A i \in DOMAIN grants : grants[i].count > 0 /\ grants[i].now = grants[1].now
    /\ \E i, j \in DOMAIN grants : grants[i].count # grants[j].count
    /\ \A p \in Procs : pc[p] \in {"sleep", "sleeping", "done"}
    /\ availableTokens < 0

\* no step lowers lastTick
LastTickGrows == lastTick' >= lastTick

\* the refill the lock holder's operation applied, and the refill the next
\* operation would apply now, do not lower the balance
RefillNeverLowers ==
    /\ AvailableAt(availableTokens, lastTick, clock) >= availableTokens
    /\ obs.op \in {"Available", "Take", "TryTake", "TakeAvailable"} =>
           AvailableAt(obs.availableTokens, obs.lastTick, obs.now) >= obs.availableTokens

\* C19: under a monotonic clock lastTick never decreases, whatever the
\* operations and their interleaving, and a refill never lowers availableTokens.
C19_LastTick ==
    /\ [][LastTickGrows]_vars
    /\ []RefillNeverLowers

\* a second caller has refilled at a later tick than the first, from a debt
C19_Witness ==
    /\ obs.op \in {"Available", "Take", "TryTake", "TakeAvailable"}
    /\ obs.lastTick > 0
    /\ lastTick > obs.lastTick
    /\ obs.availableTokens < 0
    /\ AvailableAt(obs.availableTokens, obs.lastTick, obs.now) > obs.availableTokens

\* C20 (as stated): every take that succeeds although the refilled balance is
\* short of count returns a strictly positive wait, for every count up to the
\* largest int64.
C20_Original ==
    Reserved(obs) => obs.waitTime > 0

====
